---- MODULE Spec2Model ----
(***************************************************************************)
(* The invoice ledger of Allan690/invoicer: invoice number allocation,     *)
(* the totals calculation, and the status / payment handlers of the        *)
(* invoices router.  The repository holds two backends that serve the same *)
(* routes on the same schema: the TypeScript one (drizzle; the invoices    *)
(* router is src/unnamed/part_006) and the JavaScript one (raw SQL; the    *)
(* invoices router is the second file of src/backend/src/routes/           *)
(* settings.js, with the SQL functions of src/frontend/src/vite-env.d.ts). *)
(* The variable backend says which of the two serves the requests.         *)
(*                                                                         *)
(* Money.  A decimal(12,2) column is an integer number of cents.  A        *)
(* JavaScript number is an integer number of 1/Scale cents; Number(column) *)
(* is ToNumber and writing String(number) into a decimal(12,2) column is   *)
(* ToDecimal, PostgreSQL's round-half-away-from-zero.  Double arithmetic   *)
(* on two-decimal operands is exact arithmetic plus the IEEE-754 deviation *)
(* of the sum or difference (FloatAdd, FloatSub), which is what decides    *)
(* the sign of a balance that is zero in decimal arithmetic.               *)
(***************************************************************************)
EXTENDS Integers, Sequences, FiniteSets, TLC

\* ---------------------------------------------------------------- bounds
MaxInvoices == 2
MaxItems == 2
MaxPayments == 2
MaxRequests == 5
MaxProcs == 2
MaxNumber == 11
MaxDays == 2

\* ------------------------------------------------------- program constants
DefaultNextNumber == 1
DefaultPadding == 4
DefaultPrefix == <<"I", "N", "V">>

Users == {"u1"}
InvoiceIds == 1 .. MaxInvoices
PaymentIds == 1 .. MaxPayments
Statuses == {"draft", "sent", "viewed", "paid", "overdue", "cancelled"}
Null == 0

\* new Date() / CURRENT_TIMESTAMP written over the timestamp old: the clock has
\* moved on since any stored timestamp was written, so the value differs from
\* the stored one.  A timestamp is kept as one of two instants, which is what
\* tells an overwritten timestamp from a kept one.
NewDate(old) == IF old = 1 THEN 2 ELSE 1

\* Request inputs: item quantities and rates (cents), tax rates (whole
\* percents), discounts (type, value in hundredths), payment amounts (cents).
Quantities == {0, 2}
Rates == {3}
TaxRates == {0, 20}
Discounts ==
    { [type |-> "none", value |-> 0],
      [type |-> "percentage", value |-> 2000],
      [type |-> "fixed", value |-> 2] }
PayAmounts == {1, 6}
\* An optional field of a request body: absent (undefined), or given.
Absent == [absent |-> TRUE]
Given(x) == [value |-> x]
Optional(S) == {Absent} \cup { Given(x) : x \in S }

ItemInputs == [quantity : Quantities, rate : Rates]
ItemLists == UNION { [1 .. n -> ItemInputs] : n \in 0 .. MaxItems }

\* ------------------------------------------------------------- arithmetic
Scale == 100 * 100

ToNumber(cents) == cents * Scale

RoundHalfAway(n, d) ==
    IF n >= 0 THEN (2 * n + d) \div (2 * d) ELSE -((2 * (-n) + d) \div (2 * d))

ToDecimal(num) == RoundHalfAway(num, Scale)

Max(a, b) == IF a >= b THEN a ELSE b

\* fl(x/100 + y/100) against the double nearest (x+y)/100, for x in -5..60 and
\* y a payment amount: below it, above it, or equal.
FloatSumBelow ==
    { <<-5, 6>>, <<-4, 6>>, <<-2, 6>>, <<-1, 6>>, <<1, 6>>, <<6, 1>>, <<9, 1>>,
      <<11, 6>>, <<57, 6>>, <<58, 6>>, <<59, 6>>, <<60, 6>> }
FloatSumAbove ==
    { <<-3, 1>>, <<5, 1>>, <<14, 1>>, <<17, 1>>, <<20, 1>>, <<23, 1>>, <<23, 6>>,
      <<28, 1>>, <<34, 1>>, <<40, 1>>, <<46, 1>>, <<51, 6>>, <<52, 6>>, <<53, 6>>,
      <<54, 6>>, <<55, 6>>, <<56, 1>>, <<56, 6>> }
FloatDiffBelow ==
    { <<-5, 1>>, <<3, 1>>, <<6, 1>>, <<15, 1>>, <<18, 1>>, <<21, 1>>, <<24, 1>>,
      <<29, 1>>, <<29, 6>>, <<35, 1>>, <<41, 1>>, <<47, 1>>, <<57, 1>> }
FloatDiffAbove ==
    { <<-1, 6>>, <<1, 6>>, <<2, 6>>, <<4, 6>>, <<5, 6>>, <<7, 1>>, <<7, 6>>,
      <<8, 6>>, <<10, 1>>, <<10, 6>>, <<13, 1>>, <<14, 6>>, <<17, 6>>, <<27, 6>>,
      <<28, 6>>, <<53, 6>>, <<54, 6>>, <<55, 6>> }

\* Number(a) + b and Number(a) - Number(b) on two-decimal values (cents in,
\* number out): the decimal result moved by the double's deviation.
FloatAdd(x, y) ==
    ToNumber(x + y)
        + (IF <<x, y>> \in FloatSumBelow THEN -1
           ELSE IF <<x, y>> \in FloatSumAbove THEN 1 ELSE 0)

FloatSub(x, y) ==
    ToNumber(x - y)
        + (IF <<x, y>> \in FloatDiffBelow THEN -1
           ELSE IF <<x, y>> \in FloatDiffAbove THEN 1 ELSE 0)

RECURSIVE SumAmounts(_)
SumAmounts(items) ==
    IF items = <<>> THEN 0 ELSE Head(items).amount + SumAmounts(Tail(items))

\* ------------------------------------------------------- invoice numbers
\* A string is the sequence of its characters.
DigitChars == <<"0", "1", "2", "3", "4", "5", "6", "7", "8", "9">>

RECURSIVE String(_)
String(n) ==
    IF n < 10 THEN <<DigitChars[n + 1]>>
    ELSE Append(String(n \div 10), DigitChars[(n % 10) + 1])

RECURSIVE padStart(_, _)
padStart(s, width) ==
    IF Len(s) >= width THEN s ELSE padStart(<<"0">> \o s, width)

FormatInvoiceNumber(seq, number) ==
    seq.prefix \o padStart(String(number), seq.padding)

\* PostgreSQL's LPAD: fills on the left, and cuts a longer string to width.
LPAD(s, width) ==
    IF Len(s) >= width THEN SubSeq(s, 1, width) ELSE padStart(s, width)

\* generate_invoice_number: v_prefix || LPAD(v_next_number::TEXT, v_padding, '0').
v_invoice_number(seq, number) ==
    seq.prefix \o LPAD(String(number), seq.padding)

\* ------------------------------------------------------------- the tables
VARIABLES
    backend,            \* "ts" or "js": the backend that serves the requests
    invoices,           \* invoices rows, by id
    invoiceItems,       \* invoice_items rows of each invoice, by sort order
    payments,           \* payments rows, by id
    invoiceSequences,   \* invoice_sequences rows, by user id
    procs,              \* each connection: the request it is serving, or idle
    requests,           \* the number of requests received so far
    today               \* the date new Date() gives, in days

vars ==
    <<backend, invoices, invoiceItems, payments, invoiceSequences, procs, requests,
      today>>

Procs == 1 .. MaxProcs
Idle(res) == [pc |-> "idle", res |-> res]

DB ==
    [invoices |-> invoices, invoiceItems |-> invoiceItems, payments |-> payments,
     invoiceSequences |-> invoiceSequences]

Store(d) ==
    /\ invoices' = d.invoices
    /\ invoiceItems' = d.invoiceItems
    /\ payments' = d.payments
    /\ invoiceSequences' = d.invoiceSequences

\* Owned without the condition on user_id.
OwnedById(d, invoiceId, userId) == invoiceId \in DOMAIN d.invoices

\* The row a select ... where id = invoiceId and user_id = userId finds.
Owned(d, invoiceId, userId) ==
    /\ invoiceId \in DOMAIN d.invoices
    /\ d.invoices[invoiceId].userId = userId

PaymentsOf(d, invoiceId) ==
    { p \in DOMAIN d.payments : d.payments[p].invoiceId = invoiceId }

RECURSIVE SumPayments(_, _)
SumPayments(d, ps) ==
    IF ps = {} THEN 0
    ELSE LET p == CHOOSE x \in ps : TRUE
         IN d.payments[p].amount + SumPayments(d, ps \ {p})

\* ----------------------------------------------------------------- rows
Remove(f, k) == [x \in DOMAIN f \ {k} |-> f[x]]

\* The due_date of the bodies of POST /: DueAfter days after the issue date.
DueAfter == 1

\* The defaults of the invoices columns (schema) under the values an insert
\* gives; issue_date is today unless the body names one.
NewInvoice(userId, invoiceNumber, taxRate, discount) ==
    [userId |-> userId, invoiceNumber |-> invoiceNumber, status |-> "draft",
     issueDate |-> today, dueDate |-> today + DueAfter,
     taxRate |-> taxRate, discountType |-> discount.type,
     discountValue |-> discount.value,
     subtotal |-> 0, taxAmount |-> 0, discountAmount |-> 0, total |-> 0,
     amountPaid |-> 0, balanceDue |-> 0,
     sentAt |-> Null, viewedAt |-> Null, paidAt |-> Null]

\* item.quantity || 1, item.rate || 0, amount = quantity * rate.
ItemRow(item) ==
    LET quantity == IF item.quantity = 0 THEN 1 ELSE item.quantity
        rate == IF item.rate = 0 THEN 0 ELSE item.rate
    IN [quantity |-> quantity, rate |-> rate, amount |-> quantity * rate]

ItemRows(items) == [i \in 1 .. Len(items) |-> ItemRow(items[i])]

FreeInvoiceIds(d) == InvoiceIds \ DOMAIN d.invoices
NewInvoiceId(d) == CHOOSE i \in FreeInvoiceIds(d) : \A j \in FreeInvoiceIds(d) : i <= j

FreePaymentIds(d) == PaymentIds \ DOMAIN d.payments
NewPaymentId(d) == CHOOSE i \in FreePaymentIds(d) : \A j \in FreePaymentIds(d) : i <= j

\* unique(user_id, invoice_number) of the invoices table.
NumberTaken(d, userId, invoiceNumber) ==
    \E i \in DOMAIN d.invoices :
        /\ d.invoices[i].userId = userId
        /\ d.invoices[i].invoiceNumber = invoiceNumber

\* ------------------------------------------------------ the number allocator
DefaultSequence ==
    [prefix |-> DefaultPrefix, nextNumber |-> DefaultNextNumber,
     padding |-> DefaultPadding]

InsertSequence(d, userId) ==
    [d EXCEPT !.invoiceSequences = @ @@ (userId :> DefaultSequence)]

\* update invoice_sequences set next_number = next_number + 1 ... returning
\* prefix, next_number - 1, padding: one statement.
IncrementSequence(d, userId) ==
    [d EXCEPT !.invoiceSequences[userId].nextNumber = @ + 1]

ReturnedNumber(d, userId) ==
    FormatInvoiceNumber(d.invoiceSequences[userId],
                        d.invoiceSequences[userId].nextNumber - 1)

\* The number generate_invoice_number returns, from the database after it.
ReturnedNumberSql(d, userId) ==
    v_invoice_number(d.invoiceSequences[userId],
                     d.invoiceSequences[userId].nextNumber - 1)

\* generateInvoiceNumber / generate_invoice_number run without interleaving:
\* the database after it; the number is ReturnedNumber of that database.
generateInvoiceNumber(d, userId) ==
    IncrementSequence(
        IF userId \in DOMAIN d.invoiceSequences THEN d ELSE InsertSequence(d, userId),
        userId)

\* ------------------------------------------------------ the totals calculator
\* discountValue is in hundredths and taxRate in whole percents; every value
\* below is a JavaScript number (1/Scale cents).
DiscountNumber(discountType, discountValue, subtotal) ==
    IF discountType = "percentage" THEN (subtotal * discountValue) \div Scale
    ELSE IF discountType = "fixed" THEN ToNumber(discountValue)
    ELSE 0

\* calculateInvoiceTotals (TypeScript): doubles throughout, each column rounded
\* only when it is written.
calculateInvoiceTotals(d, invoiceId) ==
    IF invoiceId \notin DOMAIN d.invoices THEN d
    ELSE
        LET invoice == d.invoices[invoiceId]
            subtotal == ToNumber(SumAmounts(d.invoiceItems[invoiceId]))
            amountPaid == ToNumber(invoice.amountPaid)
            discountAmount ==
                DiscountNumber(invoice.discountType, invoice.discountValue, subtotal)
            taxAmount == ((subtotal - discountAmount) * invoice.taxRate) \div 100
            total == subtotal - discountAmount + taxAmount
            balanceDue == total - amountPaid
        IN [d EXCEPT !.invoices[invoiceId] =
                [@ EXCEPT !.subtotal = ToDecimal(subtotal),
                          !.taxAmount = ToDecimal(taxAmount),
                          !.discountAmount = ToDecimal(discountAmount),
                          !.total = ToDecimal(total),
                          !.balanceDue = ToDecimal(balanceDue)]]

\* calculate_invoice_totals (SQL): every variable is DECIMAL(12, 2), so each
\* assignment rounds.
calculate_invoice_totals(d, invoiceId) ==
    IF invoiceId \notin DOMAIN d.invoices THEN d
    ELSE
        LET invoice == d.invoices[invoiceId]
            v_subtotal == SumAmounts(d.invoiceItems[invoiceId])
            v_discount_amount ==
                ToDecimal(DiscountNumber(invoice.discountType, invoice.discountValue,
                                         ToNumber(v_subtotal)))
            v_tax_amount ==
                ToDecimal((ToNumber(v_subtotal - v_discount_amount) * invoice.taxRate)
                              \div 100)
            v_total == v_subtotal - v_discount_amount + v_tax_amount
        IN [d EXCEPT !.invoices[invoiceId] =
                [@ EXCEPT !.subtotal = v_subtotal,
                          !.taxAmount = v_tax_amount,
                          !.discountAmount = v_discount_amount,
                          !.total = v_total,
                          !.balanceDue = v_total - invoice.amountPaid]]

\* ------------------------------------------------------------ the handlers
\* Each handler is a function of the database that gives the database after it
\* and the response: [db, res].
Response(d, res) == [db |-> d, res |-> res]

InsertInvoice(d, invoiceId, row, rows) ==
    [d EXCEPT !.invoices = @ @@ (invoiceId :> row),
              !.invoiceItems = @ @@ (invoiceId :> rows)]

\* POST / (part_006): the number is allocated on db, outside the transaction
\* that inserts the invoice and its items; the totals follow the transaction.
createInvoiceTs(d, userId, taxRate, discount, items) ==
    LET d1 == generateInvoiceNumber(d, userId)
        invoiceNumber == ReturnedNumber(d1, userId)
        invoiceId == NewInvoiceId(d)
    IN IF NumberTaken(d1, userId, invoiceNumber) THEN Response(d1, "Error")
       ELSE Response(
                calculateInvoiceTotals(
                    InsertInvoice(d1, invoiceId,
                                  NewInvoice(userId, invoiceNumber, taxRate, discount),
                                  ItemRows(items)),
                    invoiceId),
                "ok")

\* POST / (settings.js): one transaction; the totals only when items are given.
createInvoiceJs(d, userId, taxRate, discount, items) ==
    LET d1 == generateInvoiceNumber(d, userId)
        invoiceNumber == ReturnedNumberSql(d1, userId)
        invoiceId == NewInvoiceId(d)
        d2 == InsertInvoice(d1, invoiceId,
                            NewInvoice(userId, invoiceNumber, taxRate, discount),
                            ItemRows(items))
    IN IF NumberTaken(d1, userId, invoiceNumber) THEN Response(d, "Error")
       ELSE Response(IF Len(items) > 0 THEN calculate_invoice_totals(d2, invoiceId)
                     ELSE d2,
                     "ok")

\* PUT /:id, first statement of the transaction: the fields of the invoice; a
\* field the body leaves out keeps the value the handler read.
UpdateFields(d, invoiceId, existing, taxRate, discount) ==
    [d EXCEPT !.invoices[invoiceId] =
        [@ EXCEPT
            !.taxRate = IF taxRate = Absent THEN existing.taxRate
                        ELSE taxRate.value,
            !.discountType = IF discount = Absent THEN existing.discountType
                             ELSE discount.value.type,
            !.discountValue = IF discount = Absent THEN existing.discountValue
                              ELSE discount.value.value]]

\* PUT /:id: delete from invoice_items where invoice_id = invoiceId.
DeleteItems(d, invoiceId) == [d EXCEPT !.invoiceItems[invoiceId] = <<>>]

\* PUT /:id: the loop of inserts, items[i] at sort order i.
InsertItems(d, invoiceId, items) ==
    [d EXCEPT !.invoiceItems[invoiceId] = @ \o ItemRows(items)]

\* The transaction of PUT /:id: the fields, then the items when given.
UpdateRows(d, invoiceId, taxRate, discount, items) ==
    LET d1 == UpdateFields(d, invoiceId, d.invoices[invoiceId], taxRate, discount)
    IN IF items = Absent THEN d1
       ELSE InsertItems(DeleteItems(d1, invoiceId), invoiceId, items.value)

\* updateInvoiceTs with the status check naming paid only.
updateInvoiceTsPaidOnly(d, userId, invoiceId, taxRate, discount, items) ==
    IF ~Owned(d, invoiceId, userId) THEN Response(d, "NotFound")
    ELSE IF d.invoices[invoiceId].status = "paid"
    THEN Response(d, "ValidationError")
    ELSE Response(
             calculateInvoiceTotals(
                 UpdateRows(d, invoiceId, taxRate, discount, items), invoiceId),
             "ok")

\* PUT /:id (part_006): calculateInvoiceTotals always follows the transaction.
updateInvoiceTs(d, userId, invoiceId, taxRate, discount, items) ==
    IF ~Owned(d, invoiceId, userId) THEN Response(d, "NotFound")
    ELSE IF d.invoices[invoiceId].status \in {"paid", "cancelled"}
    THEN Response(d, "ValidationError")
    ELSE Response(
             calculateInvoiceTotals(
                 UpdateRows(d, invoiceId, taxRate, discount, items), invoiceId),
             "ok")

\* PUT /:id (settings.js): calculate_invoice_totals only when items are given.
updateInvoiceJs(d, userId, invoiceId, taxRate, discount, items) ==
    IF ~Owned(d, invoiceId, userId) THEN Response(d, "NotFound")
    ELSE IF d.invoices[invoiceId].status \in {"paid", "cancelled"}
    THEN Response(d, "ValidationError")
    ELSE LET d1 == UpdateRows(d, invoiceId, taxRate, discount, items)
         IN Response(IF items = Absent THEN d1
                     ELSE calculate_invoice_totals(d1, invoiceId),
                     "ok")

\* setStatus writing sentAt and viewedAt whether they are set or not.
setStatusRestamps(d, userId, invoiceId, status) ==
    IF ~Owned(d, invoiceId, userId) THEN Response(d, "NotFound")
    ELSE
        LET existing == d.invoices[invoiceId]
            markPaid == status = "paid" /\ existing.paidAt = Null
        IN Response(
               [d EXCEPT !.invoices[invoiceId] =
                   [@ EXCEPT
                       !.status = status,
                       !.sentAt = IF status = "sent" THEN NewDate(@) ELSE @,
                       !.viewedAt = IF status = "viewed" THEN NewDate(@) ELSE @,
                       !.paidAt = IF markPaid THEN NewDate(@) ELSE @,
                       !.amountPaid = IF markPaid THEN existing.total ELSE @,
                       !.balanceDue = IF markPaid THEN 0 ELSE @]],
               "ok")

\* setStatus stamping sentAt, viewedAt and paidAt on every request.
setStatusStampsAgain(d, userId, invoiceId, status) ==
    IF ~Owned(d, invoiceId, userId) THEN Response(d, "NotFound")
    ELSE
        LET existing == d.invoices[invoiceId]
            markPaid == status = "paid"
        IN Response(
               [d EXCEPT !.invoices[invoiceId] =
                   [@ EXCEPT
                       !.status = status,
                       !.sentAt = IF status = "sent" THEN NewDate(@) ELSE @,
                       !.viewedAt = IF status = "viewed" THEN NewDate(@) ELSE @,
                       !.paidAt = IF markPaid THEN NewDate(@) ELSE @,
                       !.amountPaid = IF markPaid THEN existing.total ELSE @,
                       !.balanceDue = IF markPaid THEN 0 ELSE @]],
               "ok")

\* PATCH /:id/status (both backends): no check of the current status.
setStatus(d, userId, invoiceId, status) ==
    IF ~Owned(d, invoiceId, userId) THEN Response(d, "NotFound")
    ELSE
        LET existing == d.invoices[invoiceId]
            markPaid == status = "paid" /\ existing.paidAt = Null
        IN Response(
               [d EXCEPT !.invoices[invoiceId] =
                   [@ EXCEPT
                       !.status = status,
                       !.sentAt = IF status = "sent" /\ existing.sentAt = Null
                                  THEN NewDate(@) ELSE @,
                       !.viewedAt = IF status = "viewed" /\ existing.viewedAt = Null
                                    THEN NewDate(@) ELSE @,
                       !.paidAt = IF markPaid THEN NewDate(@) ELSE @,
                       !.amountPaid = IF markPaid THEN existing.total ELSE @,
                       !.balanceDue = IF markPaid THEN 0 ELSE @]],
               "ok")

\* POST /:id/payments, first statement of the transaction: the payment row.
InsertPayment(d, invoiceId, amount) ==
    [d EXCEPT !.payments =
        @ @@ (NewPaymentId(d) :> [invoiceId |-> invoiceId, amount |-> amount])]

\* UpdatePaid leaving paidAt as the handler read it.
UpdatePaidKeepsPaidAt(d, invoiceId, invoice, amount) ==
    LET newAmountPaid == FloatAdd(invoice.amountPaid, amount)
        newBalanceDue == ToNumber(invoice.total) - newAmountPaid
        newStatus == IF newBalanceDue <= 0 THEN "paid" ELSE invoice.status
    IN [d EXCEPT
           !.invoices[invoiceId] =
               [@ EXCEPT !.amountPaid = ToDecimal(newAmountPaid),
                         !.balanceDue = ToDecimal(Max(0, newBalanceDue)),
                         !.status = newStatus,
                         !.paidAt = invoice.paidAt]]

\* POST /:id/payments, second statement: the invoice, computed from the row
\* the handler read before the transaction.
UpdatePaid(d, invoiceId, invoice, amount) ==
    LET newAmountPaid == FloatAdd(invoice.amountPaid, amount)
        newBalanceDue == ToNumber(invoice.total) - newAmountPaid
        newStatus == IF newBalanceDue <= 0 THEN "paid" ELSE invoice.status
    IN [d EXCEPT
           !.invoices[invoiceId] =
               [@ EXCEPT !.amountPaid = ToDecimal(newAmountPaid),
                         !.balanceDue = ToDecimal(Max(0, newBalanceDue)),
                         !.status = newStatus,
                         !.paidAt = IF newStatus = "paid" THEN NewDate(@)
                                    ELSE invoice.paidAt]]

\* The transaction of POST /:id/payments (both backends).
PaymentTx(d, invoiceId, invoice, amount) ==
    UpdatePaid(InsertPayment(d, invoiceId, amount), invoiceId, invoice, amount)

\* addPayment without the check of a cancelled invoice.
addPaymentToAnyStatus(d, userId, invoiceId, amount) ==
    IF ~Owned(d, invoiceId, userId) THEN Response(d, "NotFound")
    ELSE Response(PaymentTx(d, invoiceId, d.invoices[invoiceId], amount), "ok")

addPayment(d, userId, invoiceId, amount) ==
    IF ~Owned(d, invoiceId, userId) THEN Response(d, "NotFound")
    ELSE IF d.invoices[invoiceId].status = "cancelled"
    THEN Response(d, "ValidationError")
    ELSE Response(PaymentTx(d, invoiceId, d.invoices[invoiceId], amount), "ok")

\* DELETE /:invoiceId/payments/:paymentId, first statement of the transaction.
DeletePaymentRow(d, paymentId) == [d EXCEPT !.payments = Remove(@, paymentId)]

\* UpdateUnpaid computed from the invoice row as it is inside the transaction.
UpdateUnpaidFromRow(d, invoiceId, invoice, payment) ==
    LET row == d.invoices[invoiceId]
        newAmountPaid == FloatSub(row.amountPaid, payment.amount)
        newBalanceDue == ToNumber(row.total) - newAmountPaid
        newStatus ==
            IF row.status = "paid" /\ newBalanceDue > 0
            THEN (IF row.sentAt # Null THEN "sent" ELSE "draft")
            ELSE row.status
    IN [d EXCEPT
           !.invoices[invoiceId] =
               [@ EXCEPT !.amountPaid = ToDecimal(Max(0, newAmountPaid)),
                         !.balanceDue = ToDecimal(newBalanceDue),
                         !.status = newStatus,
                         !.paidAt = IF newStatus # "paid" THEN Null
                                    ELSE row.paidAt]]

\* DELETE /:invoiceId/payments/:paymentId, second statement: the invoice,
\* computed from the invoice and payment rows the handler read before it.
UpdateUnpaid(d, invoiceId, invoice, payment) ==
    LET newAmountPaid == FloatSub(invoice.amountPaid, payment.amount)
        newBalanceDue == ToNumber(invoice.total) - newAmountPaid
        newStatus ==
            IF invoice.status = "paid" /\ newBalanceDue > 0
            THEN (IF invoice.sentAt # Null THEN "sent" ELSE "draft")
            ELSE invoice.status
    IN [d EXCEPT
           !.invoices[invoiceId] =
               [@ EXCEPT !.amountPaid = ToDecimal(Max(0, newAmountPaid)),
                         !.balanceDue = ToDecimal(newBalanceDue),
                         !.status = newStatus,
                         !.paidAt = IF newStatus # "paid" THEN Null
                                    ELSE invoice.paidAt]]

\* DeletePaymentTx without the reversal of a paid invoice.
DeletePaymentTxKeepsStatus(d, invoiceId, invoice, paymentId, payment) ==
    LET newAmountPaid == FloatSub(invoice.amountPaid, payment.amount)
        newBalanceDue == ToNumber(invoice.total) - newAmountPaid
    IN [d EXCEPT
           !.payments = Remove(@, paymentId),
           !.invoices[invoiceId] =
               [@ EXCEPT !.amountPaid = ToDecimal(Max(0, newAmountPaid)),
                         !.balanceDue = ToDecimal(newBalanceDue)]]

\* The transaction of DELETE /:invoiceId/payments/:paymentId (both backends).
DeletePaymentTx(d, invoiceId, invoice, paymentId, payment) ==
    UpdateUnpaid(DeletePaymentRow(d, paymentId), invoiceId, invoice, payment)

deletePayment(d, userId, invoiceId, paymentId) ==
    IF ~Owned(d, invoiceId, userId) THEN Response(d, "NotFound")
    ELSE IF ~(paymentId \in DOMAIN d.payments
              /\ d.payments[paymentId].invoiceId = invoiceId)
    THEN Response(d, "NotFound")
    ELSE Response(
             DeletePaymentTx(d, invoiceId, d.invoices[invoiceId], paymentId,
                             d.payments[paymentId]),
             "ok")

\* POST /:id/duplicate (part_006): as POST /, from the original's rows.
duplicateInvoiceTs(d, userId, invoiceId) ==
    IF ~Owned(d, invoiceId, userId) THEN Response(d, "NotFound")
    ELSE
        LET original == d.invoices[invoiceId]
            d1 == generateInvoiceNumber(d, userId)
            invoiceNumber == ReturnedNumber(d1, userId)
            newId == NewInvoiceId(d)
        IN IF NumberTaken(d1, userId, invoiceNumber) THEN Response(d1, "Error")
           ELSE Response(
                    calculateInvoiceTotals(
                        InsertInvoice(d1, newId,
                            [NewInvoice(userId, invoiceNumber, original.taxRate,
                                        [type |-> original.discountType,
                                         value |-> original.discountValue])
                                EXCEPT !.dueDate = original.dueDate],
                            d.invoiceItems[invoiceId]),
                        newId),
                    "ok")

\* POST /:id/duplicate (settings.js): one transaction, totals always.
duplicateInvoiceJs(d, userId, invoiceId) ==
    IF ~Owned(d, invoiceId, userId) THEN Response(d, "NotFound")
    ELSE
        LET original == d.invoices[invoiceId]
            d1 == generateInvoiceNumber(d, userId)
            invoiceNumber == ReturnedNumberSql(d1, userId)
            newId == NewInvoiceId(d)
        IN IF NumberTaken(d1, userId, invoiceNumber) THEN Response(d, "Error")
           ELSE Response(
                    calculate_invoice_totals(
                        InsertInvoice(d1, newId,
                            [NewInvoice(userId, invoiceNumber, original.taxRate,
                                        [type |-> original.discountType,
                                         value |-> original.discountValue])
                                EXCEPT !.dueDate = original.dueDate],
                            d.invoiceItems[invoiceId]),
                        newId),
                    "ok")

\* DELETE /:id (both backends): one delete; the items and the payments of the
\* invoice go with it (on delete cascade).
deleteInvoice(d, userId, invoiceId) ==
    IF ~Owned(d, invoiceId, userId) THEN Response(d, "NotFound")
    ELSE Response(
             [d EXCEPT
                 !.invoices = Remove(@, invoiceId),
                 !.invoiceItems = Remove(@, invoiceId),
                 !.payments = [q \in DOMAIN @ \ PaymentsOf(d, invoiceId) |-> @[q]]],
             "ok")

\* PUT /settings/invoice (both backends): prefix and padding of the user's
\* sequence; the row is inserted when the user has none.
updateInvoiceSettings(d, userId, prefix, padding) ==
    IF userId \notin DOMAIN d.invoiceSequences
    THEN Response(
             [d EXCEPT !.invoiceSequences = @ @@ (userId :>
                 [prefix |-> IF prefix = Absent \/ prefix.value = <<>>
                             THEN DefaultPrefix ELSE prefix.value,
                  nextNumber |-> DefaultNextNumber,
                  padding |-> IF padding = Absent THEN DefaultPadding
                              ELSE padding.value])],
             "ok")
    ELSE Response(
             [d EXCEPT !.invoiceSequences[userId] =
                 [@ EXCEPT !.prefix = IF prefix = Absent THEN @ ELSE prefix.value,
                           !.padding = IF padding = Absent THEN @
                                       ELSE padding.value]],
             "ok")

\* ------------------------------------------------------------- the actions
Backends == {"ts", "js"}

Init ==
    /\ backend \in Backends
    /\ invoices = <<>>
    /\ invoiceItems = <<>>
    /\ payments = <<>>
    /\ invoiceSequences = <<>>
    /\ procs = [p \in Procs |-> Idle("none")]
    /\ requests = 0
    /\ today = 1

\* A request arrives: the model follows the first MaxRequests requests.
Receive ==
    /\ requests < MaxRequests
    /\ requests' = requests + 1

\* A request served without interleaving: the handler's result is stored.
Serve(r) == Receive /\ Store(r.db) /\ UNCHANGED <<backend, procs, today>>

\* The bodies of PUT /:id the model sends: no field, or one of tax_rate,
\* the discount and items.
UpdateBodies ==
    { [taxRate |-> t, discount |-> Absent, items |-> Absent] :
          t \in Optional(TaxRates) }
    \cup { [taxRate |-> Absent, discount |-> Given(dc), items |-> Absent] :
               dc \in Discounts }
    \cup { [taxRate |-> Absent, discount |-> Absent, items |-> Given(l)] :
               l \in ItemLists }

createInvoice(d, userId, taxRate, discount, items) ==
    IF backend = "ts" THEN createInvoiceTs(d, userId, taxRate, discount, items)
    ELSE createInvoiceJs(d, userId, taxRate, discount, items)

updateInvoice(d, userId, invoiceId, body) ==
    IF backend = "ts"
    THEN updateInvoiceTs(d, userId, invoiceId, body.taxRate, body.discount, body.items)
    ELSE updateInvoiceJs(d, userId, invoiceId, body.taxRate, body.discount, body.items)

duplicateInvoice(d, userId, invoiceId) ==
    IF backend = "ts" THEN duplicateInvoiceTs(d, userId, invoiceId)
    ELSE duplicateInvoiceJs(d, userId, invoiceId)

\* Spec follows the first invoice of a user from its creation.
CreateInvoice(userId, taxRate, discount, items) ==
    /\ invoices = <<>>
    /\ Serve(createInvoice(DB, userId, taxRate, discount, items))

UpdateInvoice(userId, invoiceId, body) ==
    /\ invoiceId \in DOMAIN invoices
    /\ Serve(updateInvoice(DB, userId, invoiceId, body))

SetStatus(userId, invoiceId, status) ==
    /\ invoiceId \in DOMAIN invoices
    /\ Serve(setStatus(DB, userId, invoiceId, status))

AddPayment(userId, invoiceId, amount) ==
    /\ invoiceId \in DOMAIN invoices
    /\ FreePaymentIds(DB) # {}
    /\ Serve(addPayment(DB, userId, invoiceId, amount))

DeletePayment(userId, invoiceId, paymentId) ==
    /\ invoiceId \in DOMAIN invoices
    /\ paymentId \in DOMAIN payments
    /\ Serve(deletePayment(DB, userId, invoiceId, paymentId))

Next ==
    \/ \E u \in Users, t \in TaxRates, dc \in Discounts, items \in ItemLists :
           CreateInvoice(u, t, dc, items)
    \/ \E u \in Users, i \in InvoiceIds, body \in UpdateBodies :
           UpdateInvoice(u, i, body)
    \/ \E u \in Users, i \in InvoiceIds, st \in Statuses : SetStatus(u, i, st)
    \/ \E u \in Users, i \in InvoiceIds, a \in PayAmounts : AddPayment(u, i, a)
    \/ \E u \in Users, i \in InvoiceIds, p \in PaymentIds : DeletePayment(u, i, p)

Spec == Init /\ [][Next]_vars

\* ------------------------------------------------- interleaved requests
\* ConcurrentSpec serves requests on MaxProcs connections, one statement (or
\* one transaction) of a handler at a time.  A connection in flight holds the
\* handler's position and its local values.
CreateBody ==
    [taxRate |-> 0, discount |-> [type |-> "none", value |-> 0],
     items |-> <<[quantity |-> 2, rate |-> 3]>>]

InFlight(pcs) == { p \in Procs : procs[p].pc \in pcs }

Step(p, next) ==
    /\ procs' = [procs EXCEPT ![p] = next]
    /\ UNCHANGED <<backend, today>>

CreatePcs == {"insertSequence", "incrementSequence", "insertInvoice", "totals"}

\* POST / (part_006), generateInvoiceNumber: the select of the user's sequence.
CreateSelect(p, userId) ==
    /\ backend = "ts"
    /\ procs[p].pc = "idle"
    /\ Cardinality(FreeInvoiceIds(DB)) > Cardinality(InFlight(CreatePcs))
    /\ Receive
    /\ Step(p, [pc |-> IF userId \in DOMAIN invoiceSequences
                       THEN "incrementSequence" ELSE "insertSequence",
                userId |-> userId])
    /\ Store(DB)

\* generateInvoiceNumber: the insert of the sequence the select did not find;
\* the primary key user_id rejects a second row.
CreateInsertSequence(p) ==
    /\ procs[p].pc = "insertSequence"
    /\ IF procs[p].userId \in DOMAIN invoiceSequences
       THEN Step(p, Idle("Error")) /\ Store(DB)
       ELSE /\ Step(p, [procs[p] EXCEPT !.pc = "incrementSequence"])
            /\ Store(InsertSequence(DB, procs[p].userId))
    /\ UNCHANGED requests

\* generateInvoiceNumber: update ... returning, and the number it formats.
CreateIncrement(p) ==
    /\ procs[p].pc = "incrementSequence"
    /\ LET d == IncrementSequence(DB, procs[p].userId)
       IN /\ Store(d)
          /\ Step(p, [pc |-> "insertInvoice", userId |-> procs[p].userId,
                      invoiceNumber |-> ReturnedNumber(d, procs[p].userId)])
    /\ UNCHANGED requests

\* POST / (part_006): the transaction that inserts the invoice and its items.
CreateInsert(p) ==
    /\ procs[p].pc = "insertInvoice"
    /\ IF NumberTaken(DB, procs[p].userId, procs[p].invoiceNumber)
       THEN Step(p, Idle("Error")) /\ Store(DB)
       ELSE /\ Step(p, [pc |-> "totals", invoiceId |-> NewInvoiceId(DB)])
            /\ Store(InsertInvoice(DB, NewInvoiceId(DB),
                         NewInvoice(procs[p].userId, procs[p].invoiceNumber,
                                    CreateBody.taxRate, CreateBody.discount),
                         ItemRows(CreateBody.items)))
    /\ UNCHANGED requests

\* POST / (part_006): calculateInvoiceTotals, then the response.
CreateTotals(p) ==
    /\ procs[p].pc = "totals"
    /\ Store(calculateInvoiceTotals(DB, procs[p].invoiceId))
    /\ Step(p, Idle("ok"))
    /\ UNCHANGED requests

\* POST / (settings.js): one transaction; generate_invoice_number's update
\* holds the lock of the sequence row until the commit.
CreateJs(p, userId) ==
    /\ backend = "js"
    /\ procs[p].pc = "idle"
    /\ FreeInvoiceIds(DB) # {}
    /\ Receive
    /\ LET r == createInvoiceJs(DB, userId, CreateBody.taxRate,
                                CreateBody.discount, CreateBody.items)
       IN Store(r.db) /\ Step(p, Idle(r.res))

\* POST /:id/payments: the select of the invoice and the checks on it, before
\* the transaction.
AddPaymentRead(p, userId, invoiceId, amount) ==
    /\ procs[p].pc = "idle"
    /\ invoiceId \in DOMAIN invoices
    /\ Cardinality(FreePaymentIds(DB)) > Cardinality(InFlight({"paymentTx"}))
    /\ Receive
    /\ Store(DB)
    /\ IF ~Owned(DB, invoiceId, userId) THEN Step(p, Idle("NotFound"))
       ELSE IF invoices[invoiceId].status = "cancelled"
       THEN Step(p, Idle("ValidationError"))
       ELSE Step(p, [pc |-> "paymentTx", invoiceId |-> invoiceId,
                     invoice |-> invoices[invoiceId], amount |-> amount])

\* POST /:id/payments: the transaction, computed from the row read before it.
AddPaymentTx(p) ==
    /\ procs[p].pc = "paymentTx"
    /\ Store(PaymentTx(DB, procs[p].invoiceId, procs[p].invoice, procs[p].amount))
    /\ Step(p, Idle("ok"))
    /\ UNCHANGED requests

ConcurrentNext ==
    \/ \E p \in Procs, u \in Users : CreateSelect(p, u)
    \/ \E p \in Procs : CreateInsertSequence(p)
    \/ \E p \in Procs : CreateIncrement(p)
    \/ \E p \in Procs : CreateInsert(p)
    \/ \E p \in Procs : CreateTotals(p)
    \/ \E p \in Procs, u \in Users : CreateJs(p, u)
    \/ \E p \in Procs, u \in Users, i \in InvoiceIds, a \in PayAmounts :
           AddPaymentRead(p, u, i, a)
    \/ \E p \in Procs : AddPaymentTx(p)

ConcurrentSpec == Init /\ [][ConcurrentNext]_vars

\* ------------------------------------------------ statements and failures
\* TransactionSpec serves one request at a time, one statement at a time.  The
\* statements of a transaction act on the view the connection holds (tx) and
\* reach the tables at the commit; the variables are what every other
\* connection reads.  A statement may fail: the transaction is rolled back and
\* the request answers with an error.  before is the state at the start of
\* the request.
Quiet == \A q \in Procs : procs[q].pc = "idle"

PaymentPcs == {"insertPayment", "updatePaid", "deletePayment", "updateUnpaid"}
UpdatePcs == {"updateFields", "deleteItems", "insertItems", "calculateTotals"}
TxPcs == PaymentPcs \cup UpdatePcs \cup {"commit"}

\* The bodies of PUT /:id sent here: a tax rate alone, no items, two items.
TxBodies ==
    { [taxRate |-> Given(20), discount |-> Absent, items |-> Absent],
      [taxRate |-> Absent, discount |-> Absent, items |-> Given(<<>>)],
      [taxRate |-> Absent, discount |-> Absent,
       items |-> Given(<<[quantity |-> 2, rate |-> 3],
                         [quantity |-> 0, rate |-> 3]>>)] }

\* A statement of the transaction written to the tables at once.
PendingWrittenThrough(p, d, next) ==
    /\ procs' = [procs EXCEPT ![p] = [@ EXCEPT !.pc = next, !.tx = d]]
    /\ Store(d)
    /\ UNCHANGED <<backend, requests, today>>

\* A statement of the callback of db.transaction: held until the commit.
Pending(p, d, next) ==
    /\ procs' = [procs EXCEPT ![p] = [@ EXCEPT !.pc = next, !.tx = d]]
    /\ Store(DB)
    /\ UNCHANGED <<backend, requests, today>>

\* POST /, served whole.
TxCreate(p, userId) ==
    /\ Quiet
    /\ invoices = <<>>
    /\ Receive
    /\ LET r == createInvoice(DB, userId, CreateBody.taxRate,
                              CreateBody.discount, CreateBody.items)
       IN Store(r.db) /\ Step(p, Idle(r.res))

\* POST /:id/payments: the select and the checks before the transaction.
PayBegin(p, userId, invoiceId, amount) ==
    /\ Quiet
    /\ invoiceId \in DOMAIN invoices
    /\ FreePaymentIds(DB) # {}
    /\ Receive
    /\ Store(DB)
    /\ IF ~Owned(DB, invoiceId, userId) THEN Step(p, Idle("NotFound"))
       ELSE IF invoices[invoiceId].status = "cancelled"
       THEN Step(p, Idle("ValidationError"))
       ELSE Step(p, [pc |-> "insertPayment", handler |-> "addPayment",
                     invoiceId |-> invoiceId, invoice |-> invoices[invoiceId],
                     amount |-> amount, tx |-> DB, before |-> DB])

PayInsert(p) ==
    /\ procs[p].pc = "insertPayment"
    /\ Pending(p, InsertPayment(procs[p].tx, procs[p].invoiceId, procs[p].amount),
               "updatePaid")

PayUpdate(p) ==
    /\ procs[p].pc = "updatePaid"
    /\ Pending(p, UpdatePaid(procs[p].tx, procs[p].invoiceId, procs[p].invoice,
                             procs[p].amount),
               "commit")

\* DELETE /:invoiceId/payments/:paymentId: the two selects before the
\* transaction.
DeleteBegin(p, userId, invoiceId, paymentId) ==
    /\ Quiet
    /\ invoiceId \in DOMAIN invoices
    /\ paymentId \in DOMAIN payments
    /\ Receive
    /\ Store(DB)
    /\ IF ~Owned(DB, invoiceId, userId) THEN Step(p, Idle("NotFound"))
       ELSE IF payments[paymentId].invoiceId # invoiceId
       THEN Step(p, Idle("NotFound"))
       ELSE Step(p, [pc |-> "deletePayment", handler |-> "deletePayment",
                     invoiceId |-> invoiceId, invoice |-> invoices[invoiceId],
                     paymentId |-> paymentId, payment |-> payments[paymentId],
                     tx |-> DB, before |-> DB])

DeleteRow(p) ==
    /\ procs[p].pc = "deletePayment"
    /\ Pending(p, DeletePaymentRow(procs[p].tx, procs[p].paymentId), "updateUnpaid")

DeleteUpdate(p) ==
    /\ procs[p].pc = "updateUnpaid"
    /\ Pending(p, UpdateUnpaid(procs[p].tx, procs[p].invoiceId, procs[p].invoice,
                               procs[p].payment),
               "commit")

\* PUT /:id: the select and the status check before the transaction.
UpdateBegin(p, userId, invoiceId, body) ==
    /\ Quiet
    /\ invoiceId \in DOMAIN invoices
    /\ Receive
    /\ Store(DB)
    /\ IF ~Owned(DB, invoiceId, userId) THEN Step(p, Idle("NotFound"))
       ELSE IF invoices[invoiceId].status \in {"paid", "cancelled"}
       THEN Step(p, Idle("ValidationError"))
       ELSE Step(p, [pc |-> "updateFields", handler |-> "updateInvoice",
                     invoiceId |-> invoiceId, existing |-> invoices[invoiceId],
                     body |-> body, tx |-> DB, before |-> DB])

UpdateInvoiceFields(p) ==
    /\ procs[p].pc = "updateFields"
    /\ Pending(p, UpdateFields(procs[p].tx, procs[p].invoiceId, procs[p].existing,
                               procs[p].body.taxRate, procs[p].body.discount),
               IF procs[p].body.items = Absent THEN "commit" ELSE "deleteItems")

UpdateDeleteItems(p) ==
    /\ procs[p].pc = "deleteItems"
    /\ Pending(p, DeleteItems(procs[p].tx, procs[p].invoiceId), "insertItems")

\* The inserts of the new items; settings.js goes on, inside the
\* transaction, to calculate_invoice_totals.
UpdateInsertItems(p) ==
    /\ procs[p].pc = "insertItems"
    /\ Pending(p, InsertItems(procs[p].tx, procs[p].invoiceId,
                              procs[p].body.items.value),
               IF backend = "js" THEN "calculateTotals" ELSE "commit")

UpdateCalculate(p) ==
    /\ procs[p].pc = "calculateTotals"
    /\ Pending(p, calculate_invoice_totals(procs[p].tx, procs[p].invoiceId),
               "commit")

\* The commit; part_006's PUT /:id has calculateInvoiceTotals still to run.
Commit(p) ==
    /\ procs[p].pc = "commit"
    /\ Store(procs[p].tx)
    /\ IF backend = "ts" /\ procs[p].handler = "updateInvoice"
       THEN Step(p, [pc |-> "totals", handler |-> "updateInvoice",
                     invoiceId |-> procs[p].invoiceId,
                     before |-> procs[p].before])
       ELSE Step(p, Idle("ok"))
    /\ UNCHANGED requests

\* A statement of the transaction fails: rollback, and the error handler.
Rollback(p) ==
    /\ procs[p].pc \in TxPcs
    /\ Store(DB)
    /\ Step(p, Idle("Error"))
    /\ UNCHANGED requests

\* PUT /:id (part_006): calculateInvoiceTotals, after the transaction.
UpdateTotals(p) ==
    /\ procs[p].pc = "totals"
    /\ Store(calculateInvoiceTotals(DB, procs[p].invoiceId))
    /\ Step(p, Idle("ok"))
    /\ UNCHANGED requests

\* calculateInvoiceTotals fails: nothing is left to roll back.
UpdateTotalsFail(p) ==
    /\ procs[p].pc = "totals"
    /\ Store(DB)
    /\ Step(p, Idle("Error"))
    /\ UNCHANGED requests

TransactionNext ==
    \/ \E p \in Procs, u \in Users : TxCreate(p, u)
    \/ \E p \in Procs, u \in Users, i \in InvoiceIds, a \in PayAmounts :
           PayBegin(p, u, i, a)
    \/ \E p \in Procs : PayInsert(p)
    \/ \E p \in Procs : PayUpdate(p)
    \/ \E p \in Procs, u \in Users, i \in InvoiceIds, q \in PaymentIds :
           DeleteBegin(p, u, i, q)
    \/ \E p \in Procs : DeleteRow(p)
    \/ \E p \in Procs : DeleteUpdate(p)
    \/ \E p \in Procs, u \in Users, i \in InvoiceIds, body \in TxBodies :
           UpdateBegin(p, u, i, body)
    \/ \E p \in Procs : UpdateInvoiceFields(p)
    \/ \E p \in Procs : UpdateDeleteItems(p)
    \/ \E p \in Procs : UpdateInsertItems(p)
    \/ \E p \in Procs : UpdateCalculate(p)
    \/ \E p \in Procs : Commit(p)
    \/ \E p \in Procs : Rollback(p)
    \/ \E p \in Procs : UpdateTotals(p)
    \/ \E p \in Procs : UpdateTotalsFail(p)

TransactionSpec == Init /\ [][TransactionNext]_vars

\* ------------------------------------------------------ invoice numbering
\* NumberSpec follows one user's sequence up to MaxNumber allocations: invoices
\* are created, duplicated and deleted, and the prefix and the padding are
\* changed, one request at a time.
Prefixes == {DefaultPrefix, <<"I", "N", "V", "1">>}
Paddings == {1}

\* next_number of the user's sequence; a user without a row gets the default.
NextNumberOf(d, userId) ==
    IF userId \in DOMAIN d.invoiceSequences
    THEN d.invoiceSequences[userId].nextNumber
    ELSE DefaultNextNumber

\* The invoice number the next allocation returns.
Allocated(d, userId) ==
    IF backend = "ts"
    THEN ReturnedNumber(generateInvoiceNumber(d, userId), userId)
    ELSE ReturnedNumberSql(generateInvoiceNumber(d, userId), userId)

Allocates(userId) ==
    /\ FreeInvoiceIds(DB) # {}
    /\ NextNumberOf(DB, userId) <= MaxNumber

Answer(r) == Store(r.db) /\ UNCHANGED <<backend, procs, requests, today>>

NumberCreate(userId) ==
    /\ Allocates(userId)
    /\ Answer(createInvoice(DB, userId, CreateBody.taxRate, CreateBody.discount,
                            CreateBody.items))

\* POST / with a client_id that names no client: the insert of the invoice is
\* rejected (foreign key).  part_006 has run generateInvoiceNumber on db by
\* then, outside the transaction; settings.js rolls the allocation back.
createInvoiceRejected(d, userId) ==
    IF backend = "ts" THEN Response(generateInvoiceNumber(d, userId), "Error")
    ELSE Response(d, "Error")

NumberCreateRejected(userId) ==
    /\ Allocates(userId)
    /\ Answer(createInvoiceRejected(DB, userId))

NumberDuplicate(userId, invoiceId) ==
    /\ invoiceId \in DOMAIN invoices
    /\ Allocates(userId)
    /\ Answer(duplicateInvoice(DB, userId, invoiceId))

NumberDelete(userId, invoiceId) ==
    /\ invoiceId \in DOMAIN invoices
    /\ Answer(deleteInvoice(DB, userId, invoiceId))

NumberSettings(userId, prefix, padding) ==
    /\ prefix # Absent \/ padding # Absent
    /\ Answer(updateInvoiceSettings(DB, userId, prefix, padding))

NumberNext ==
    \/ \E u \in Users : NumberCreate(u)
    \/ \E u \in Users : NumberCreateRejected(u)
    \/ \E u \in Users, i \in InvoiceIds : NumberDuplicate(u, i)
    \/ \E u \in Users, i \in InvoiceIds : NumberDelete(u, i)
    \/ \E u \in Users, prefix \in Optional(Prefixes), padding \in Optional(Paddings) :
           NumberSettings(u, prefix, padding)

NumberSpec == Init /\ [][NumberNext]_vars

\* ------------------------------------------------------- several accounts
\* BookSpec serves the requests of two users, one at a time, over several
\* days: invoices are created, duplicated and deleted, payments recorded and
\* deleted.
Accounts == Users \cup {"u2"}

BookCreate(userId) ==
    /\ FreeInvoiceIds(DB) # {}
    /\ Serve(createInvoice(DB, userId, CreateBody.taxRate, CreateBody.discount,
                           CreateBody.items))

BookDuplicate(userId, invoiceId) ==
    /\ invoiceId \in DOMAIN invoices
    /\ FreeInvoiceIds(DB) # {}
    /\ Serve(duplicateInvoice(DB, userId, invoiceId))

BookDelete(userId, invoiceId) ==
    /\ invoiceId \in DOMAIN invoices
    /\ Serve(deleteInvoice(DB, userId, invoiceId))

BookAddPayment(userId, invoiceId, amount) ==
    /\ invoiceId \in DOMAIN invoices
    /\ FreePaymentIds(DB) # {}
    /\ Serve(addPayment(DB, userId, invoiceId, amount))

BookDeletePayment(userId, invoiceId, paymentId) ==
    /\ invoiceId \in DOMAIN invoices
    /\ paymentId \in DOMAIN payments
    /\ Serve(deletePayment(DB, userId, invoiceId, paymentId))

\* Midnight: new Date() gives the next day from now on.
NextDay ==
    /\ today < MaxDays
    /\ today' = today + 1
    /\ Store(DB)
    /\ UNCHANGED <<backend, procs, requests>>

BookNext ==
    \/ \E u \in Accounts : BookCreate(u)
    \/ \E u \in Accounts, i \in InvoiceIds : BookDuplicate(u, i)
    \/ \E u \in Accounts, i \in InvoiceIds : BookDelete(u, i)
    \/ \E u \in Accounts, i \in InvoiceIds, a \in PayAmounts :
           BookAddPayment(u, i, a)
    \/ \E u \in Accounts, i \in InvoiceIds, q \in PaymentIds :
           BookDeletePayment(u, i, q)
    \/ NextDay

BookSpec == Init /\ [][BookNext]_vars

\* ------------------------------------------------- requests on one invoice
\* RaceSpec interleaves the requests on one invoice: each handler reads the
\* invoice (and the payment) first, then runs its transaction, and other
\* requests run between the two.
\* The statuses PATCH /:id/status is sent here.
RaceStatuses == {"sent", "cancelled"}

\* The bodies of PUT /:id sent here: the ones that name items.
RaceBodies == { body \in TxBodies : body.items # Absent }

RaceCreate(p, userId) ==
    /\ procs[p].pc = "idle"
    /\ invoices = <<>>
    /\ Receive
    /\ LET r == createInvoice(DB, userId, CreateBody.taxRate,
                              CreateBody.discount, CreateBody.items)
       IN Store(r.db) /\ Step(p, Idle(r.res))

\* PATCH /:id/status: the select, then a single update.
RaceSetStatus(p, userId, invoiceId, status) ==
    /\ procs[p].pc = "idle"
    /\ invoiceId \in DOMAIN invoices
    /\ Receive
    /\ LET r == setStatus(DB, userId, invoiceId, status)
       IN Store(r.db) /\ Step(p, Idle(r.res))

\* PUT /:id: the select and the status check, before the transaction.
UpdateRead(p, userId, invoiceId, body) ==
    /\ procs[p].pc = "idle"
    /\ invoiceId \in DOMAIN invoices
    /\ Receive
    /\ Store(DB)
    /\ IF ~Owned(DB, invoiceId, userId) THEN Step(p, Idle("NotFound"))
       ELSE IF invoices[invoiceId].status \in {"paid", "cancelled"}
       THEN Step(p, Idle("ValidationError"))
       ELSE Step(p, [pc |-> "updateTx", invoiceId |-> invoiceId,
                     existing |-> invoices[invoiceId], body |-> body])

\* PUT /:id: the transaction, with the fields the body leaves out taken from
\* the row read before; settings.js calculates the totals inside it.
UpdateWrite(p) ==
    /\ procs[p].pc = "updateTx"
    /\ LET i == procs[p].invoiceId
           body == procs[p].body
           d1 == UpdateFields(DB, i, procs[p].existing, body.taxRate, body.discount)
           d2 == IF body.items = Absent THEN d1
                 ELSE InsertItems(DeleteItems(d1, i), i, body.items.value)
       IN IF backend = "ts"
          THEN Store(d2) /\ Step(p, [pc |-> "updateTotals", invoiceId |-> i])
          ELSE /\ Store(IF body.items = Absent THEN d2
                        ELSE calculate_invoice_totals(d2, i))
               /\ Step(p, Idle("ok"))
    /\ UNCHANGED requests

\* PUT /:id (part_006): calculateInvoiceTotals, after the transaction.
UpdateRecalculate(p) ==
    /\ procs[p].pc = "updateTotals"
    /\ Store(calculateInvoiceTotals(DB, procs[p].invoiceId))
    /\ Step(p, Idle("ok"))
    /\ UNCHANGED requests

\* DELETE /:invoiceId/payments/:paymentId: the two selects.
DeletePaymentRead(p, userId, invoiceId, paymentId) ==
    /\ procs[p].pc = "idle"
    /\ invoiceId \in DOMAIN invoices
    /\ paymentId \in DOMAIN payments
    /\ Receive
    /\ Store(DB)
    /\ IF ~Owned(DB, invoiceId, userId) THEN Step(p, Idle("NotFound"))
       ELSE IF payments[paymentId].invoiceId # invoiceId
       THEN Step(p, Idle("NotFound"))
       ELSE Step(p, [pc |-> "deleteTx", invoiceId |-> invoiceId,
                     invoice |-> invoices[invoiceId], paymentId |-> paymentId,
                     payment |-> payments[paymentId]])

\* DELETE /:invoiceId/payments/:paymentId: the transaction; a delete that
\* finds no row is no error.
DeletePaymentWrite(p) ==
    /\ procs[p].pc = "deleteTx"
    /\ Store(DeletePaymentTx(DB, procs[p].invoiceId, procs[p].invoice,
                             procs[p].paymentId, procs[p].payment))
    /\ Step(p, Idle("ok"))
    /\ UNCHANGED requests

RaceNext ==
    \/ \E p \in Procs, u \in Users : RaceCreate(p, u)
    \/ \E p \in Procs, u \in Users, i \in InvoiceIds, st \in RaceStatuses :
           RaceSetStatus(p, u, i, st)
    \/ \E p \in Procs, u \in Users, i \in InvoiceIds, a \in PayAmounts :
           AddPaymentRead(p, u, i, a)
    \/ \E p \in Procs : AddPaymentTx(p)
    \/ \E p \in Procs, u \in Users, i \in InvoiceIds, body \in RaceBodies :
           UpdateRead(p, u, i, body)
    \/ \E p \in Procs : UpdateWrite(p)
    \/ \E p \in Procs : UpdateRecalculate(p)
    \/ \E p \in Procs, u \in Users, i \in InvoiceIds, q \in PaymentIds :
           DeletePaymentRead(p, u, i, q)
    \/ \E p \in Procs : DeletePaymentWrite(p)

RaceSpec == Init /\ [][RaceNext]_vars

\* ------------------------------------------------------------ the ledger
\* The amounts an invoice's stored subtotal, discount and tax rate give, to
\* the cent.
DiscountOf(invoice) ==
    IF invoice.discountType = "percentage"
    THEN RoundHalfAway(invoice.subtotal * invoice.discountValue, 100 * 100)
    ELSE IF invoice.discountType = "fixed" THEN invoice.discountValue
    ELSE 0

TaxOf(invoice) ==
    RoundHalfAway((invoice.subtotal - invoice.discountAmount) * invoice.taxRate, 100)

TotalsFollow(invoice, items) ==
    /\ invoice.subtotal = SumAmounts(items)
    /\ invoice.discountAmount = DiscountOf(invoice)
    /\ invoice.taxAmount = TaxOf(invoice)
    /\ invoice.total = invoice.subtotal - invoice.discountAmount + invoice.taxAmount

PaidSum(i) == SumPayments(DB, PaymentsOf(DB, i))

\* C1: once a mutation has completed, every invoice's subtotal is the sum of
\* its items' amounts, its discountAmount is the percentage of the subtotal
\* (or the fixed value, or 0), its taxAmount is the tax rate applied to
\* subtotal - discountAmount, and its total is subtotal - discountAmount +
\* taxAmount.
C1_TotalsConsistent ==
    \A i \in DOMAIN invoices : TotalsFollow(invoices[i], invoiceItems[i])

\* C2: after any sequence of addPayment, deletePayment and setStatus calls,
\* an invoice's amountPaid is the sum of the amounts of its payments.
C2_AmountPaidIsSum ==
    \A i \in DOMAIN invoices : invoices[i].amountPaid = PaidSum(i)

\* C3: in every reachable state balanceDue = max(0, total - amountPaid).
C3_BalanceDueClamped ==
    \A i \in DOMAIN invoices :
        invoices[i].balanceDue = Max(0, invoices[i].total - invoices[i].amountPaid)

\* --------------------------------------------------------------- payments
\* The invoice i can take a payment from user u: it is u's, not cancelled.
Payable(u, i) ==
    /\ Owned(DB, i, u)
    /\ invoices[i].status # "cancelled"
    /\ FreePaymentIds(DB) # {}

\* C6: addPayment of a > 0 on an invoice that is not cancelled appends exactly
\* one payment, increases amountPaid by a, sets balanceDue to
\* max(0, total - amountPaid), and makes the status paid exactly when
\* total - amountPaid is now <= 0, leaving it unchanged otherwise.
C6_AddPaymentPostcondition ==
    \A u \in Users, i \in DOMAIN invoices, a \in PayAmounts :
        Payable(u, i) =>
            LET r == addPayment(DB, u, i, a)
                before == invoices[i]
                after == r.db.invoices[i]
            IN /\ r.res = "ok"
               /\ \E p \in PaymentIds \ DOMAIN payments :
                      r.db.payments = payments @@ (p :> [invoiceId |-> i, amount |-> a])
               /\ after.amountPaid = before.amountPaid + a
               /\ after.balanceDue = Max(0, after.total - after.amountPaid)
               /\ after.status =
                      IF after.total - after.amountPaid <= 0 THEN "paid"
                      ELSE before.status

\* C7: deletePayment of a payment of the invoice removes it and decreases
\* amountPaid by its amount; a paid invoice whose total - amountPaid is now > 0
\* becomes sent when sentAt is set and draft otherwise, with paidAt cleared; in
\* every other case status and paidAt are unchanged.
C7_DeletePaymentPostcondition ==
    \A u \in Users, i \in DOMAIN invoices, p \in DOMAIN payments :
        (Owned(DB, i, u) /\ p \in PaymentsOf(DB, i)) =>
            LET r == deletePayment(DB, u, i, p)
                before == invoices[i]
                after == r.db.invoices[i]
                reverts == before.status = "paid" /\ after.total - after.amountPaid > 0
            IN /\ r.res = "ok"
               /\ r.db.payments = Remove(payments, p)
               /\ after.amountPaid = before.amountPaid - payments[p].amount
               /\ after.status =
                      IF reverts
                      THEN (IF before.sentAt # Null THEN "sent" ELSE "draft")
                      ELSE before.status
               /\ after.paidAt = IF reverts THEN Null ELSE before.paidAt

\* The round trip on invoice i: a payment of amount a is added, then deleted.
AfterPayment(u, i, a) == addPayment(DB, u, i, a).db

AfterRoundTrip(u, i, a) ==
    deletePayment(AfterPayment(u, i, a), u, i, NewPaymentId(DB)).db

\* The invoice i has total > 0, no payments, a status from which payment is
\* accepted, and a is exactly its total.
RoundTripCase(u, i, a) ==
    /\ Payable(u, i)
    /\ invoices[i].total > 0
    /\ PaymentsOf(DB, i) = {}
    /\ a = invoices[i].total

RoundTripPaid(u, i, a) ==
    /\ AfterPayment(u, i, a).invoices[i].status = "paid"
    /\ AfterPayment(u, i, a).invoices[i].balanceDue = 0

RoundTripSettled(u, i, a) ==
    /\ AfterRoundTrip(u, i, a).invoices[i].amountPaid = 0
    /\ AfterRoundTrip(u, i, a).invoices[i].balanceDue = invoices[i].total
    /\ AfterRoundTrip(u, i, a).invoices[i].paidAt = Null

NonTerminal == {"draft", "sent", "viewed", "overdue"}

\* C9: setStatus(paid) requested from any non-terminal status, after any
\* history of the invoice, leaves it with status paid, amountPaid = total,
\* balanceDue = 0 and paidAt set.
C9_MarkPaidSettles ==
    \A u \in Users, i \in DOMAIN invoices :
        (Owned(DB, i, u) /\ invoices[i].status \in NonTerminal) =>
            LET after == setStatus(DB, u, i, "paid").db.invoices[i]
            IN /\ after.status = "paid"
               /\ after.amountPaid = after.total
               /\ after.balanceDue = 0
               /\ after.paidAt # Null

\* C10: once an invoice is cancelled, every setStatus request to a different
\* status is rejected with InvalidTransition and the status stays cancelled.
C10_CancelledIsTerminal ==
    \A u \in Users, i \in DOMAIN invoices, st \in Statuses \ {"cancelled"} :
        (Owned(DB, i, u) /\ invoices[i].status = "cancelled") =>
            /\ setStatus(DB, u, i, st).res = "InvalidTransition"
            /\ setStatus(DB, u, i, st).db.invoices[i].status = "cancelled"

\* ------------------------------------------------------------ concurrency
AllIdle == \A p \in Procs : procs[p].pc = "idle"

NumbersOf(u) ==
    { invoices[i].invoiceNumber : i \in { j \in DOMAIN invoices : invoices[j].userId = u } }

\* C4: under concurrent createInvoice calls of one user, in any interleaving
\* and whether or not the user's sequence row exists, every call succeeds and
\* the calls receive distinct, consecutive numbers.
C4_ConcurrentCreatesSucceed ==
    /\ \A p \in Procs : procs[p].pc = "idle" => procs[p].res # "Error"
    /\ AllIdle =>
           \A u \in Users :
               LET mine == { j \in DOMAIN invoices : invoices[j].userId = u }
               IN /\ Cardinality(NumbersOf(u)) = Cardinality(mine)
                  /\ NumbersOf(u) =
                         { FormatInvoiceNumber(DefaultSequence, n) :
                               n \in DefaultNextNumber ..
                                     DefaultNextNumber + Cardinality(mine) - 1 }

\* C5: two addPayment requests on one invoice that interleave do not lose an
\* update: once both have committed, amountPaid is the sum of the payments and
\* the status is paid exactly when that sum reaches total.
C5_NoLostPayment ==
    AllIdle =>
        \A i \in DOMAIN invoices :
            Cardinality(PaymentsOf(DB, i)) >= 2 =>
                /\ invoices[i].amountPaid = PaidSum(i)
                /\ invoices[i].status = "paid" <=> PaidSum(i) >= invoices[i].total

\* ---------------------------------------------------- status, continued
\* C11: an invoice leaves status paid only in a step that deletes a payment
\* and leaves balanceDue > 0: no setStatus request moves a paid invoice to
\* draft, sent, viewed or overdue.
C11_PaidLeftOnlyByDeletion ==
    [][\A i \in DOMAIN invoices :
           (invoices[i].status = "paid" /\ i \in DOMAIN invoices'
                /\ invoices'[i].status # "paid") =>
               /\ \E p \in PaymentsOf(DB, i) : payments' = Remove(payments, p)
               /\ invoices'[i].balanceDue > 0]_vars

\* C12: updateInvoice on a paid or cancelled invoice is rejected with an
\* error and leaves every invoice field and every line item unchanged.
C12_PaidOrCancelledNotEdited ==
    \A u \in Users, i \in DOMAIN invoices, body \in UpdateBodies :
        (Owned(DB, i, u) /\ invoices[i].status \in {"paid", "cancelled"}) =>
            /\ updateInvoice(DB, u, i, body).res = "ValidationError"
            /\ updateInvoice(DB, u, i, body).db = DB

\* A cancelled invoice with line items, which an accepted edit would change.
C12_Witness ==
    \E i \in DOMAIN invoices :
        /\ invoices[i].status = "cancelled"
        /\ invoiceItems[i] # <<>>
        /\ invoices[i].subtotal > 0

\* C13: addPayment on a cancelled invoice is rejected, records no payment and
\* changes no field of the invoice.
C13_CancelledTakesNoPayment ==
    \A u \in Users, i \in DOMAIN invoices, a \in PayAmounts :
        (Owned(DB, i, u) /\ invoices[i].status = "cancelled") =>
            /\ addPayment(DB, u, i, a).res = "ValidationError"
            /\ addPayment(DB, u, i, a).db = DB

\* A cancelled invoice with a balance due, while a payment could be recorded.
C13_Witness ==
    \E i \in DOMAIN invoices :
        /\ invoices[i].status = "cancelled"
        /\ invoices[i].balanceDue > 0
        /\ FreePaymentIds(DB) # {}

Fails(p, hs) ==
    /\ procs[p].pc # "idle"
    /\ procs[p].handler \in hs
    /\ procs'[p] = Idle("Error")

\* C14: recording a payment and deleting one are atomic: in every state another
\* connection can read, each invoice's amountPaid is the sum of its payment
\* rows (no payment row is seen without the invoice update, nor the update
\* without the row), and a request that fails at any statement leaves the
\* payments and the invoice as they were before it.
C14_PaymentsAtomic ==
    [][/\ \A i \in DOMAIN invoices' :
              invoices'[i].amountPaid =
                  SumPayments(DB', PaymentsOf(DB', i))
       /\ \A p \in Procs :
              Fails(p, {"addPayment", "deletePayment"}) => DB' = procs[p].before
      ]_vars

\* A payment recorded and a payment deleted, both read by other connections,
\* after a request that failed.
C14_Witness ==
    /\ \E i \in DOMAIN invoices :
           /\ invoices[i].amountPaid = 1
           /\ PaymentsOf(DB, i) = {2}
    /\ \E p \in Procs : procs[p] = Idle("Error")

\* C15: the items replaced in an update and the totals computed from them
\* appear together: no step shows new items with the totals of the old ones,
\* and an update that fails leaves the invoice and its old items as they were.
C15_ItemsAndTotalsTogether ==
    [][/\ \A i \in DOMAIN invoices :
              invoiceItems'[i] # invoiceItems[i] =>
                  invoices'[i].subtotal = SumAmounts(invoiceItems'[i])
       /\ \A p \in Procs : Fails(p, {"updateInvoice"}) => DB' = procs[p].before
      ]_vars

\* ----------------------------------------------------------- numbering
\* The sequence row an allocation starts from.
SequenceOf(u) ==
    IF u \in DOMAIN invoiceSequences THEN invoiceSequences[u] ELSE DefaultSequence

\* C16: an allocation returns the prefix followed by the value nextNumber had
\* before it, left-padded with zeros to padding digits, and adds exactly 1 to
\* nextNumber (INV0001, then INV0002, for a user without a sequence); changing
\* the prefix or the padding changes neither nextNumber nor the number of any
\* invoice.
C16_AllocationFormat ==
    \A u \in Users :
        LET seq == SequenceOf(u)
            d1 == generateInvoiceNumber(DB, u)
        IN /\ Allocated(DB, u) =
                  seq.prefix \o padStart(String(seq.nextNumber), seq.padding)
           /\ d1.invoiceSequences[u].nextNumber = seq.nextNumber + 1
           /\ u \notin DOMAIN invoiceSequences =>
                  /\ Allocated(DB, u) = <<"I", "N", "V", "0", "0", "0", "1">>
                  /\ Allocated(d1, u) = <<"I", "N", "V", "0", "0", "0", "2">>
           /\ \A prefix \in Optional(Prefixes), padding \in Optional(Paddings) :
                  LET r == updateInvoiceSettings(DB, u, prefix, padding)
                  IN /\ r.db.invoiceSequences[u].nextNumber = seq.nextNumber
                     /\ r.db.invoices = invoices

\* C17: the number an allocation returns is never a number allocated before to
\* the same user; the numbers of the user's invoices were all allocated before.
C17_NoNumberReused ==
    \A u \in Users : ~NumberTaken(DB, u, Allocated(DB, u))

\* ----------------------------------------------------------- duplication
\* C19: duplicateInvoice gives a new invoice with a fresh number, different
\* from the original's, in status draft, with the original's tax rate,
\* discount and items, its issue date today and its due date as far from
\* today as the original's due date was from its issue date, no payments,
\* amountPaid 0 and no sentAt, viewedAt or paidAt; the original, its items and
\* its payments are unchanged.
C19_DuplicateIsFreshDraft ==
    \A u \in Accounts, i \in DOMAIN invoices :
        (Owned(DB, i, u) /\ FreeInvoiceIds(DB) # {}) =>
            LET r == duplicateInvoice(DB, u, i)
                new == NewInvoiceId(DB)
                original == invoices[i]
            IN /\ r.res = "ok"
               /\ new \in DOMAIN r.db.invoices
               /\ LET copy == r.db.invoices[new]
                  IN /\ copy.userId = u
                     /\ copy.invoiceNumber # original.invoiceNumber
                     /\ copy.status = "draft"
                     /\ copy.taxRate = original.taxRate
                     /\ copy.discountType = original.discountType
                     /\ copy.discountValue = original.discountValue
                     /\ r.db.invoiceItems[new] = invoiceItems[i]
                     /\ copy.issueDate = today
                     /\ copy.dueDate - copy.issueDate
                            = original.dueDate - original.issueDate
                     /\ copy.amountPaid = 0
                     /\ copy.sentAt = Null
                     /\ copy.viewedAt = Null
                     /\ copy.paidAt = Null
               /\ PaymentsOf(r.db, new) = {}
               /\ r.db.invoices[i] = original
               /\ r.db.invoiceItems[i] = invoiceItems[i]
               /\ r.db.payments = payments

\* ------------------------------------------------------------- ownership
\* The request answers NotFound and changes nothing.
Refused(r) == r.res = "NotFound" /\ r.db = DB

\* C20: every operation a user requests on an invoice of another user, and a
\* deletePayment naming a payment that is not a payment of the invoice given,
\* answers NotFound and changes nothing.
C20_OwnershipIsolation ==
    \A a \in Accounts, i \in DOMAIN invoices :
        /\ invoices[i].userId # a =>
               /\ \A body \in UpdateBodies : Refused(updateInvoice(DB, a, i, body))
               /\ \A st \in Statuses : Refused(setStatus(DB, a, i, st))
               /\ \A amount \in PayAmounts : Refused(addPayment(DB, a, i, amount))
               /\ \A q \in PaymentIds : Refused(deletePayment(DB, a, i, q))
               /\ Refused(duplicateInvoice(DB, a, i))
               /\ Refused(deleteInvoice(DB, a, i))
        /\ \A q \in DOMAIN payments :
               payments[q].invoiceId # i => Refused(deletePayment(DB, a, i, q))

\* Invoices of two users, a payment on one of them, and an id left for a copy.
C20_Witness ==
    \E i, j \in DOMAIN invoices :
        /\ invoices[i].userId # invoices[j].userId
        /\ PaymentsOf(DB, i) # {}
        /\ invoices[i].status # "paid"

\* ------------------------------------------------------ money, continued
\* C21: in every reachable state each of subtotal, discountAmount, taxAmount,
\* total, amountPaid and balanceDue of every invoice is at least 0.
C21_MoneyNonNegative ==
    \A i \in DOMAIN invoices :
        /\ invoices[i].subtotal >= 0
        /\ invoices[i].discountAmount >= 0
        /\ invoices[i].taxAmount >= 0
        /\ invoices[i].total >= 0
        /\ invoices[i].amountPaid >= 0
        /\ invoices[i].balanceDue >= 0

\* C22: nextNumber advances only in a step that adds an invoice of the user:
\* a request that fails after its number was allocated leaves nextNumber as it
\* was, so nextNumber - 1 stays the count of invoices ever created.
C22_NoGapOnFailure ==
    [][\A u \in Users :
           NextNumberOf(DB', u) # NextNumberOf(DB, u) =>
               /\ NextNumberOf(DB', u) = NextNumberOf(DB, u) + 1
               /\ \E i \in DOMAIN invoices' \ DOMAIN invoices :
                      invoices'[i].userId = u]_vars

\* ------------------------------------------------- interleaved requests
\* C23: in no step, interleaved or not, whose result has the invoice paid or
\* cancelled do the invoice's items, dates, tax rate or discount change.
C23_SettledNeverEdited ==
    [][\A i \in DOMAIN invoices \cap DOMAIN invoices' :
           invoices'[i].status \in {"paid", "cancelled"} =>
               /\ invoiceItems'[i] = invoiceItems[i]
               /\ invoices'[i].taxRate = invoices[i].taxRate
               /\ invoices'[i].discountType = invoices[i].discountType
               /\ invoices'[i].discountValue = invoices[i].discountValue
               /\ invoices'[i].issueDate = invoices[i].issueDate
               /\ invoices'[i].dueDate = invoices[i].dueDate]_vars

\* Two requests to delete the same payment, both past their selects of the
\* invoice row as it still is.
TwoDeletes(p, q) ==
    /\ p # q
    /\ procs[p].pc = "deleteTx"
    /\ procs[q].pc = "deleteTx"
    /\ procs[p].paymentId = procs[q].paymentId
    /\ procs[p].paymentId \in DOMAIN payments
    /\ procs[p].invoice = invoices[procs[p].invoiceId]
    /\ procs[q].invoice = invoices[procs[p].invoiceId]

\* The database after the transaction of p, then that of q.
AfterBoth(p, q) ==
    LET d1 == DeletePaymentTx(DB, procs[p].invoiceId, procs[p].invoice,
                              procs[p].paymentId, procs[p].payment)
    IN DeletePaymentTx(d1, procs[q].invoiceId, procs[q].invoice,
                       procs[q].paymentId, procs[q].payment)

C25_PaidAtKeptWhilePaid ==
    [][\A i \in DOMAIN invoices \cap DOMAIN invoices' :
           invoices'[i].status = "paid" =>
               IF invoices[i].status = "paid"
               THEN invoices'[i].paidAt = invoices[i].paidAt
               ELSE invoices'[i].paidAt # Null]_vars

Recalculated(i) ==
    IF backend = "ts" THEN calculateInvoiceTotals(DB, i).invoices[i]
    ELSE calculate_invoice_totals(DB, i).invoices[i]

\* C27: when a fixed discount exceeds the subtotal the calculated taxAmount
\* and total are 0, and with no line items the calculated subtotal,
\* taxAmount, total and balanceDue are all 0.
C27_DiscountAboveSubtotalClamped ==
    \A i \in DOMAIN invoices :
        LET row == Recalculated(i)
        IN /\ (row.discountType = "fixed"
                   /\ row.discountValue > SumAmounts(invoiceItems[i])) =>
                  (row.taxAmount = 0 /\ row.total = 0)
           /\ invoiceItems[i] = <<>> =>
                  /\ row.subtotal = 0
                  /\ row.taxAmount = 0
                  /\ row.total = 0
                  /\ row.balanceDue = 0

\* The rows hold the quantity and the rate of each item supplied, and their
\* product.
StoredAsSupplied(rows, items) ==
    /\ Len(rows) = Len(items)
    /\ \A k \in 1 .. Len(items) :
           /\ rows[k].quantity = items[k].quantity
           /\ rows[k].rate = items[k].rate
           /\ rows[k].amount = items[k].quantity * items[k].rate

\* C28: every item written by createInvoice or updateInvoice is stored with
\* the quantity and the rate supplied and amount = quantity * rate; an item
\* supplied with quantity 0 is stored with quantity 0 and amount 0.
C28_ItemsStoredAsSupplied ==
    \A u \in Users, items \in ItemLists :
        /\ FreeInvoiceIds(DB) # {} =>
               LET r == createInvoice(DB, u, 0, [type |-> "none", value |-> 0],
                                      items)
               IN r.res = "ok" =>
                      StoredAsSupplied(r.db.invoiceItems[NewInvoiceId(DB)], items)
        /\ \A i \in DOMAIN invoices :
               LET r == updateInvoice(DB, u, i,
                            [taxRate |-> Absent, discount |-> Absent,
                             items |-> Given(items)])
               IN r.res = "ok" => StoredAsSupplied(r.db.invoiceItems[i], items)

\* C29: the stored discountAmount and taxAmount are rounded before they are
\* used, so the stored values of every invoice satisfy
\* total = subtotal - discountAmount + taxAmount to the cent.
C29_StoredTotalAddsUp ==
    \A i \in DOMAIN invoices :
        invoices[i].total =
            invoices[i].subtotal - invoices[i].discountAmount
                + invoices[i].taxAmount

====
